---- MODULE Spec2Model ----
(***************************************************************************)
(* img_tag_system: the new-image registration pipeline                     *)
(* (RegisterNewImageUsecase.handle), the UnitOfWork it persists through,   *)
(* the DuckDB repositories behind it, the parallel executor and the        *)
(* tagging result classifier.                                              *)
(*                                                                         *)
(* Seven specifications share this module:                                  *)
(*   Spec          handle run against the images / model_tag tables        *)
(*   SpecUow       one scope use of a UnitOfWork over any repositories     *)
(*   SpecExec      one call of execute_parallel                            *)
(*   SpecClassify  TaggingResultClassifier.classify on bounded inputs      *)
(*   SpecDedup     ImageDeduplicationService.filter_duplicates              *)
(*   SpecStages    the stages of handle, task by task                       *)
(*   SpecExecFair  SpecExec with fair scheduling of threads                 *)
(***************************************************************************)
EXTENDS Integers, Sequences, FiniteSets, TLC

(***************************************************************************)
(* Bounds                                                                  *)
(***************************************************************************)
MaxFiles == 2          \* files handed to one handle call
NumContents == 2       \* distinct decodable binary payloads
MaxRuns == 2           \* consecutive handle calls on the same file list
MaxOtherWrites == 1    \* rows inserted by a writer other than handle
MaxRepos == 3          \* repositories managed by a UnitOfWork
MaxKeys == 2           \* names given to UnitOfWork.subset
MaxTasks == 3          \* argument tuples given to execute_parallel
MaxWorkers == 2        \* n_workers of execute_parallel
MaxLen == 3            \* list length given to classify
MaxCandidates == 3     \* candidate entries given to filter_duplicates
MaxStageTasks == 3     \* files of a handle call followed task by task

(***************************************************************************)
(* Values                                                                  *)
(***************************************************************************)
None == [kind |-> "None"]

Exc(name) == [kind |-> "Exception", name |-> name]

IsException(v) == v.kind = "Exception"

Range(s) == {s[i] : i \in 1..Len(s)}

SeqsUpTo(S, n) == UNION {[1..k -> S] : k \in 0..n}

\* TaggerResult: category -> ordered tags (scores are carried by the tags).
TaggerResults ==
    {[kind |-> "TaggerResult", general |-> g, character |-> c] :
        g \in {<<>>, <<"1girl">>}, c \in {<<>>, <<"kokkoro">>}}

EmptyTaggerResult == [kind |-> "TaggerResult", general |-> <<>>, character |-> <<>>]

\* TaggerResult.is_empty: no category holds a tag.
is_empty(r) == Len(r.general) + Len(r.character) = 0

\* TaggerResult.to_dict_list: one (category, tag) item per tag, category by category.
to_dict_list(r) ==
    [i \in 1..Len(r.general) |-> [category |-> "general", tag |-> r.general[i]]]
    \o [i \in 1..Len(r.character) |-> [category |-> "character", tag |-> r.character[i]]]

(***************************************************************************)
(* TaggingResultClassifier.classify                                        *)
(***************************************************************************)
TaggedImageEntry(entry, result) == [image_entry |-> entry, tagger_result |-> result]

EmptyOutcome == [success |-> <<>>, failure |-> <<>>, empty |-> <<>>]

\* One iteration of the loop body of classify: the three-way branch.
ClassifySwapped(acc, entry, result) ==
    IF result = None THEN [acc EXCEPT !.empty = Append(@, entry)]
    ELSE IF is_empty(result) THEN [acc EXCEPT !.failure = Append(@, entry)]
    ELSE [acc EXCEPT !.success = Append(@, TaggedImageEntry(entry, result))]

ClassifyDropEmpty(acc, entry, result) ==
    IF result = None THEN [acc EXCEPT !.failure = Append(@, entry)]
    ELSE IF is_empty(result) THEN acc
    ELSE [acc EXCEPT !.success = Append(@, TaggedImageEntry(entry, result))]

ClassifyOne(acc, entry, result) ==
    IF result = None THEN [acc EXCEPT !.failure = Append(@, entry)]
    ELSE IF is_empty(result) THEN [acc EXCEPT !.empty = Append(@, entry)]
    ELSE [acc EXCEPT !.success = Append(@, TaggedImageEntry(entry, result))]

RECURSIVE ClassifyLoop(_, _, _, _)
ClassifyLoop(acc, image_entries, tagger_results, i) ==
    IF i > Len(image_entries) THEN acc
    ELSE ClassifyLoop(ClassifyOne(acc, image_entries[i], tagger_results[i]),
                      image_entries, tagger_results, i + 1)

classify_truncating(image_entries, tagger_results) ==
    LET n == IF Len(image_entries) < Len(tagger_results)
             THEN Len(image_entries) ELSE Len(tagger_results)
    IN  [raised |-> FALSE,
         outcome |-> ClassifyLoop(EmptyOutcome, SubSeq(image_entries, 1, n),
                                  SubSeq(tagger_results, 1, n), 1)]

\* classify: zip(strict=True) raises ValueError on unequal lengths, and then
\* no TaggingOutcome is built.
classify(image_entries, tagger_results) ==
    IF Len(image_entries) # Len(tagger_results)
    THEN [raised |-> TRUE, outcome |-> EmptyOutcome]
    ELSE [raised |-> FALSE,
          outcome |-> ClassifyLoop(EmptyOutcome, image_entries, tagger_results, 1)]

has_any_success_always(outcome) == TRUE

has_any_success(outcome) == Len(outcome.success) > 0

total_count(outcome) == Len(outcome.success) + Len(outcome.failure) + Len(outcome.empty)

(***************************************************************************)
(* State                                                                   *)
(***************************************************************************)
VARIABLES
    \* --- RegisterNewImageUsecase.handle and the DuckDB tables -------------
    files,           \* image_files: the content behind each path (0 = undecodable)
    pc,              \* position of handle
    run,             \* number of the current handle call (0 before the first)
    pairs,           \* _ImageEntryBinaryPairs.pairs
    non_duplicate,   \* non_duplicate_image_entries
    tagger_results,  \* tagger_results (Exception already turned into None)
    outcome,         \* TaggingOutcome
    image_ids,       \* ids returned by images.insert
    bodyExc,         \* exception raised inside the with block, or None
    handleExc,       \* exception that left handle, or None
    imagesTable,     \* rows of the images table visible to every connection
    modelTagTable,   \* rows of the model_tag table visible to every connection
    image_id_seq,    \* next value of the image_id sequence
    submitted,       \* entries handed to images.insert by the current call
    insertConflict,  \* submitted hashes found in the table when the insert ran
    otherWrites,     \* rows inserted so far by another writer
    uow_arg,         \* repositories of the unit_of_work argument of __init__
    unit_of_work,    \* repositories of self.unit_of_work
    trace,           \* calls the current handle call made on its collaborators, in order
    tagger_results_raw,      \* what parallel.execute returned for the tag stage
    model_tag_entries_list,  \* list handed to model_tag.insert by the current call
    \* --- UnitOfWork used as a scope ------------------------------------------
    uRepos,          \* repositories: (name, repository instance) items in dict order
    uSubset,         \* the subset call made on the UnitOfWork, or None
    uPc,             \* "idle", "entered", "body_done", "exited"
    uBodyExc,        \* exception raised by the body, or None
    uCalls,          \* commit / rollback calls made by __exit__, in order
    uPropagated,     \* exception that left the with statement, or None
    \* --- execute_parallel ----------------------------------------------------
    args_list,       \* argument: [given, list]; given = FALSE stands for None
    kwargs_list,     \* argument: [given, list]; given = FALSE stands for None
    exArgs,          \* args_list after the length adjustment (one argument per task)
    exKwargs,        \* kwargs_list after the length adjustment
    exInvalid,       \* ValueError raised by the validation, or None
    exLate,          \* tasks started after a task error was re-raised
    exHanging,       \* arguments on which func never terminates
    exCalls,         \* invocations of func so far, in start order
    exFailing,       \* arguments on which func raises
    exWorkers,       \* n_workers
    exRaise,         \* raise_on_error
    exPc,            \* "ready", "invalid", "collecting", "shutdown", "returned", "raised"
    exStatus,        \* per task: "pending", "running", "done"
    exOrder,         \* task indices in completion order
    exYielded,       \* task indices already yielded by as_completed
    exResults,       \* results
    exErr,           \* exception leaving execute_parallel, or None
    \* --- classify --------------------------------------------------------------
    cEntries,        \* image_entries
    cResults,        \* tagger_results
    cPc,             \* "ready", "done", "raised"
    cOutcome,        \* returned TaggingOutcome
    \* --- filter_duplicates -----------------------------------------------------
    dCandidates,     \* image_entries
    dStored,         \* rows of the images table behind images_repo
    dPc,             \* "ready", "done"
    dResult,         \* returned list
    \* --- stages of handle, task by task ---------------------------------------
    sPc,             \* where the main thread of handle is: "extract", "tag", "scope", "returned"
    sWorkers,        \* n_workers
    sExtract,        \* per _extract_metadata task: "pending", "running", "done"
    sTag,            \* per _tag task: "pending", "running", "done"
    sLookup,         \* find_by_hashes of the dedup step: "not_called", "returned"
    sEntered         \* the with block of the UnitOfWork was entered

hVars == <<files, pc, run, pairs, non_duplicate, tagger_results, outcome, image_ids,
           bodyExc, handleExc, imagesTable, modelTagTable, image_id_seq, submitted,
           insertConflict, otherWrites, trace, uow_arg, unit_of_work,
           tagger_results_raw, model_tag_entries_list>>

uVars == <<uRepos, uSubset, uPc, uBodyExc, uCalls, uPropagated>>

eVars == <<args_list, kwargs_list, exArgs, exKwargs, exInvalid, exLate, exHanging, exCalls,
           exFailing, exWorkers,
           exRaise, exPc, exStatus, exOrder, exYielded, exResults, exErr>>

cVars == <<cEntries, cResults, cPc, cOutcome>>

dVars == <<dCandidates, dStored, dPc, dResult>>

sVars == <<sPc, sWorkers, sExtract, sTag, sLookup, sEntered>>

vars == <<hVars, uVars, eVars, cVars, dVars, sVars>>

(***************************************************************************)
(* Entities                                                                *)
(***************************************************************************)
Contents == 1..NumContents

\* ImageHash.from_binary: SHA-256 of the payload; distinct payloads of the
\* model get distinct digests.
from_binary(binary) == (binary * 5 + 3) % 16

\* ImageEntry.from_metadata: image_id is None until the store assigns it.
ImageEntry(loc, binary) ==
    [kind |-> "ImageEntry", image_id |-> 0, file_location |-> loc,
     hash |-> from_binary(binary)]

ImageEntryBinaryPair(entry, binary) == [kind |-> "Pair", entry |-> entry, binary |-> binary]

\* _ImageEntryBinaryPairs.entries
entries(ps) == [i \in 1..Len(ps) |-> ps[i].entry]

\* _ImageEntryBinaryPairs.binaries
binaries(ps) == [i \in 1..Len(ps) |-> ps[i].binary]

\* _ImageEntryBinaryPairs.filter_by_entry_hashes
filter_by_entry_hashes(ps, allowed_hashes) ==
    SelectSeq(ps, LAMBDA pair : pair.entry.hash \in allowed_hashes)

\* _ImageEntryBinaryPairs.exclude_none_entries
exclude_none_entries(ps) == SelectSeq(ps, LAMBDA pair : pair.entry # None)

\* ModelTagEntries.from_tagger_result: one ModelTagEntry per (category, tag).
from_tagger_result(image_id, tags) ==
    [i \in 1..Len(to_dict_list(tags)) |->
        [image_id |-> image_id, category |-> to_dict_list(tags)[i].category,
         tag |-> to_dict_list(tags)[i].tag]]

(***************************************************************************)
(* ImageMetadataExtractor and ImageDeduplicationService                    *)
(***************************************************************************)
\* Payloads a file can hold: the contents of decodable images, 0 for bytes
\* that are no image, and EmptyBinary for a zero-byte file (b"").
EmptyBinary == 0 - 1

Payloads == {EmptyBinary, 0} \cup Contents

\* "image_binary or self._storage.read_binary(image_file)": the supplied
\* binary is used when it is truthy, that is, when it is not empty.
supplied_binary_used(image_binary) == image_binary # EmptyBinary

\* extract_from_file: an undecodable payload (UnidentifiedImageError) gives
\* None; so does an empty one, read once more from storage and still empty.
extract_from_file(image_file, image_binary) ==
    IF image_binary \in {EmptyBinary, 0} THEN None ELSE ImageEntry(image_file, image_binary)

\* The storage.read_binary calls of one _extract_metadata task: the read of
\* _extract_metadata and, when that returned, the read extract_from_file makes
\* itself if it does not use the binary it was given.
extract_metadata_reads(image_file, image_binary, read_raised) ==
    <<[target |-> "storage", op |-> "read_binary", arg |-> image_file, raised |-> read_raised]>>
        \o (IF ~read_raised /\ ~supplied_binary_used(image_binary)
            THEN <<[target |-> "storage", op |-> "read_binary", arg |-> image_file,
                    raised |-> FALSE]>>
            ELSE <<>>)

\* DuckDBImagesRepository.find_by_hashes
find_by_hashes(table, hash_values) ==
    IF hash_values = <<>> THEN {} ELSE {row \in table : row.hash \in Range(hash_values)}

filter_duplicates_keep_all(image_entries, table) == image_entries

filter_duplicates_keep_stored(image_entries, table) ==
    SelectSeq(image_entries, LAMBDA entry : \E row \in table : row.hash = entry.hash)

\* ImageDeduplicationService.filter_duplicates
filter_duplicates(image_entries, table) ==
    LET existing_image_entries ==
            find_by_hashes(table, [i \in 1..Len(image_entries) |-> image_entries[i].hash])
        existing_hash_set == {row.hash : row \in existing_image_entries}
    IN  SelectSeq(image_entries, LAMBDA entry : entry.hash \notin existing_hash_set)

(***************************************************************************)
(* DuckDB repositories.  BaseDuckDBRepository opens one connection per     *)
(* repository and no statement of the repositories opens a transaction, so *)
(* each INSERT is its own transaction: a statement that succeeds is        *)
(* visible at once, a statement that fails changes nothing.                *)
(***************************************************************************)
\* The images table declares hash UNIQUE: the hashes of a bulk insert that
\* collide with a stored row or with another row of the same statement.
UniqueViolations(table, es) ==
    {es[i].hash : i \in {k \in 1..Len(es) :
        \/ \E row \in table : row.hash = es[k].hash
        \/ \E j \in 1..Len(es) : j # k /\ es[j].hash = es[k].hash}}

\* Phrases of the ConstraintException raised for a UNIQUE violation.
UniqueViolationMessage == {"Duplicate key", "violates unique constraint"}

bulk_insert_error_generic(message) == Exc("InfrastructureError")

\* The except clause of _bulk_insert.
bulk_insert_error(message) ==
    IF "Duplicate key" \in message /\ "violates unique constraint" \in message
    THEN Exc("DuplicateImageError")
    ELSE Exc("InfrastructureError")

\* DuckDBImagesRepository.insert / _bulk_insert; ids are RETURNING image_id in
\* row order.  by records which handle call wrote the row (0: another writer).
images_insert(table, seq, es, by) ==
    IF es = <<>> THEN [raised |-> None, ids |-> <<>>, table |-> table, seq |-> seq]
    ELSE IF UniqueViolations(table, es) # {}
    THEN [raised |-> bulk_insert_error(UniqueViolationMessage), ids |-> <<>>,
          table |-> table, seq |-> seq]
    ELSE [raised |-> None,
          ids |-> [i \in 1..Len(es) |-> seq + i - 1],
          table |-> table \cup {[image_id |-> seq + i - 1, hash |-> es[i].hash,
                                 file_location |-> es[i].file_location, by |-> by] :
                                i \in 1..Len(es)},
          seq |-> seq + Len(es)]

\* Errors the model_tag INSERT can end with besides success.
ModelTagInsertFailures == {Exc("IOException")}

\* DuckDBModelTagRepository.insert / _bulk_insert (INSERT OR REPLACE).
model_tag_insert(table, entries_list, err, by) ==
    IF entries_list = <<>> THEN [raised |-> None, table |-> table]
    ELSE IF err # None THEN [raised |-> err, table |-> table]
    ELSE [raised |-> None,
          table |-> table \cup
              UNION {{[image_id |-> entries_list[k][i].image_id,
                       category |-> entries_list[k][i].category,
                       tag |-> entries_list[k][i].tag, by |-> by] :
                      i \in 1..Len(entries_list[k])} : k \in 1..Len(entries_list)}]

(***************************************************************************)
(* UnitOfWork                                                              *)
(***************************************************************************)
\* __exit__: commit when no exception reached it, rollback otherwise.
exit_method(exc) == IF exc = None THEN "commit" ELSE "rollback"

\* _commit / _rollback: the loop calls the repositories in dict order and an
\* exception of a call leaves the loop.  failAt is the position of the call
\* that raises (0: none does).
for_each_repository(repos, op, failAt) ==
    [i \in 1..(IF failAt = 0 THEN Len(repos) ELSE failAt) |->
        [repo |-> repos[i], op |-> op, raised |-> (i = failAt)]]

\* __exit__ returns None, so the exception of the body goes on to the caller
\* unless a commit or rollback call raised first.
uow_exit(repos, exc, failAt) ==
    [calls |-> for_each_repository(repos, exit_method(exc), failAt),
     propagated |-> IF failAt = 0 THEN exc
                    ELSE IF exit_method(exc) = "commit" THEN Exc("CommitError")
                    ELSE Exc("RollbackError")]

RepoNames == {"images", "model_tag", "audit"}

\* Repository instances.
RepoInstances == {1, 2}

\* A dict of repositories: distinct names in insertion order, each with the
\* instance it maps to.
RepoDicts ==
    UNION {{[i \in 1..Len(names) |-> [name |-> names[i], repo |-> repos[i]]] :
               repos \in [1..Len(names) -> RepoInstances]} :
           names \in {d \in SeqsUpTo(RepoNames, MaxRepos) :
                         \A i, j \in 1..Len(d) : i # j => d[i] # d[j]}}

\* The keys of a dict of repositories.
Names(repositories) == {repositories[i].name : i \in 1..Len(repositories)}

\* The keys of a dict comprehension over keys: each key once, at the place of
\* its first occurrence.
FirstOccurrences(keys) ==
    LET keep == {i \in 1..Len(keys) : \A j \in 1..(i - 1) : keys[j] # keys[i]}
        F[n \in 0..Len(keys)] ==
            IF n = 0 THEN <<>>
            ELSE IF n \in keep THEN Append(F[n - 1], keys[n]) ELSE F[n - 1]
    IN  F[Len(keys)]

\* self.repositories[name]
RepositoryItem(repositories, name) ==
    repositories[CHOOSE i \in 1..Len(repositories) : repositories[i].name = name]

subset_all(repositories, keys) ==
    [raised |-> None, child |-> repositories, parent |-> repositories]

subset_by_position(repositories, keys) ==
    IF \E k \in 1..Len(keys) : keys[k] \notin Names(repositories)
    THEN [raised |-> Exc("KeyError"), child |-> <<>>, parent |-> repositories]
    ELSE [raised |-> None,
          child |-> [k \in 1..Len(FirstOccurrences(keys)) |->
                        [name |-> FirstOccurrences(keys)[k], repo |-> repositories[k].repo]],
          parent |-> repositories]

\* UnitOfWork.subset: a new UnitOfWork over {name: self.repositories[name] for
\* name in keys}; a name the dict does not hold raises KeyError.  parent is
\* the dict of the UnitOfWork the method was called on, after the call.
subset(repositories, keys) ==
    IF \E k \in 1..Len(keys) : keys[k] \notin Names(repositories)
    THEN [raised |-> Exc("KeyError"), child |-> <<>>, parent |-> repositories]
    ELSE [raised |-> None,
          child |-> [k \in 1..Len(FirstOccurrences(keys)) |->
                        RepositoryItem(repositories, FirstOccurrences(keys)[k])],
          parent |-> repositories]

\* RegisterNewImageUsecase.REQUIRED_REPOSITORIES
REQUIRED_REPOSITORIES == <<"images", "model_tag">>

\* UnitOfWork objects a RegisterNewImageUsecase can be built from: they manage
\* the required repositories, in any dict order, alone or with another one.
UsecaseUnitsOfWork ==
    {d \in RepoDicts : /\ Range(REQUIRED_REPOSITORIES) \subseteq Names(d)
                       /\ \A i \in 1..Len(d) : d[i].repo = 1}

(***************************************************************************)
(* RegisterNewImageUsecase.handle                                          *)
(***************************************************************************)
\* What Tagger.tag can do for one binary.
TagOutcomes ==
    {Exc("TaggingError"), EmptyTaggerResult,
     [kind |-> "TaggerResult", general |-> <<"1girl">>, character |-> <<>>],
     [kind |-> "TaggerResult", general |-> <<>>, character |-> <<"kokkoro">>]}

\* Errors the SELECT of find_by_hashes can end with besides success.
FindByHashesFailures == {Exc("ConnectionException")}

\* One call of handle on a collaborator: target.op(arg), and whether it raised.
Call(target, op, arg, raised) == [target |-> target, op |-> op, arg |-> arg, raised |-> raised]

insert_then_enter(insert_raised) ==
    <<Call("images", "insert", 0, insert_raised), Call("unit_of_work", "__enter__", 0, FALSE)>>

\* "with self.unit_of_work:" and the first statement of its block.
enter_then_insert(insert_raised) ==
    <<Call("unit_of_work", "__enter__", 0, FALSE), Call("images", "insert", 0, insert_raised)>>

build_model_tag_entries_reversed(ids, success) ==
    [k \in 1..Len(ids) |->
        from_tagger_result(ids[k], success[Len(success) + 1 - k].tagger_result)]

\* The list comprehension over zip(image_ids, outcome.success, strict=True).
build_model_tag_entries(ids, success) ==
    [k \in 1..Len(ids) |-> from_tagger_result(ids[k], success[k].tagger_result)]

drop_exceptions(results) == SelectSeq(results, LAMBDA result : ~IsException(result))

\* [result if not isinstance(result, Exception) else None for result in ...]
exception_to_none(results) ==
    [i \in 1..Len(results) |-> IF IsException(results[i]) THEN None ELSE results[i]]

no_image_files_never(image_files) == FALSE

\* "if not image_files": the guard at the top of handle.
no_image_files(image_files) == image_files = <<>>

stage_raise_on_error_in_extract(stage) == stage = "extract"

stage_raise_on_error_in_tag(stage) == stage = "tag"

\* raise_on_error passed to parallel.execute by the extract and the tag stage.
stage_raise_on_error(stage) == FALSE

HandleLocalsInit ==
    /\ trace = <<>>
    /\ tagger_results_raw = <<>>
    /\ model_tag_entries_list = <<>>
    /\ pairs = <<>>
    /\ non_duplicate = <<>>
    /\ tagger_results = <<>>
    /\ outcome = EmptyOutcome
    /\ image_ids = <<>>
    /\ bodyExc = None
    /\ handleExc = None
    /\ submitted = <<>>
    /\ insertConflict = {}

\* __init__ has run: self.unit_of_work = unit_of_work.subset(REQUIRED_REPOSITORIES).
HInit ==
    /\ uow_arg \in UsecaseUnitsOfWork
    /\ unit_of_work = subset(uow_arg, REQUIRED_REPOSITORIES).child
    /\ files \in SeqsUpTo(Payloads, MaxFiles)
    /\ pc = "idle"
    /\ run = 0
    /\ HandleLocalsInit
    /\ imagesTable = {}
    /\ modelTagTable = {}
    /\ image_id_seq = 1
    /\ otherWrites = 0

HIdle ==
    /\ uow_arg = <<>>
    /\ unit_of_work = <<>>
    /\ files = <<>>
    /\ pc = "off"
    /\ run = 0
    /\ HandleLocalsInit
    /\ imagesTable = {}
    /\ modelTagTable = {}
    /\ image_id_seq = 1
    /\ otherWrites = 0

\* handle is called (again) on the same file list; the guard returns at once
\* on an empty list.
HandleCall ==
    /\ pc \in {"idle", "returned", "raised"}
    /\ run < MaxRuns
    /\ run' = run + 1
    /\ trace' = <<>>
    /\ tagger_results_raw' = <<>>
    /\ model_tag_entries_list' = <<>>
    /\ pairs' = <<>>
    /\ non_duplicate' = <<>>
    /\ tagger_results' = <<>>
    /\ outcome' = EmptyOutcome
    /\ image_ids' = <<>>
    /\ bodyExc' = None
    /\ handleExc' = None
    /\ submitted' = <<>>
    /\ insertConflict' = {}
    /\ pc' = IF no_image_files(files) THEN "returned" ELSE "extract"
    /\ UNCHANGED <<uow_arg, unit_of_work>>
    /\ UNCHANGED <<files, imagesTable, modelTagTable, image_id_seq, otherWrites>>

\* Step 1-2: _extract_metadata over all files with raise_on_error=False; a
\* read_binary that raises leaves an Exception in the list, dropped together
\* with the pairs whose entry is None.
Extract ==
    /\ pc = "extract"
    /\ \E readErr \in SUBSET (1..Len(files)) :
         LET raw == [i \in 1..Len(files) |->
                        IF i \in readErr THEN Exc("StorageError")
                        ELSE ImageEntryBinaryPair(extract_from_file(i, files[i]), files[i])]
             ps == exclude_none_entries(SelectSeq(raw, LAMBDA pair : ~IsException(pair)))
             reads[n \in 0..Len(files)] ==
                 IF n = 0 THEN <<>>
                 ELSE reads[n - 1] \o extract_metadata_reads(n, files[n], n \in readErr)
         IN  /\ trace' = trace \o reads[Len(files)]
             /\ IF stage_raise_on_error("extract") /\ readErr # {}
                THEN /\ handleExc' = Exc("StorageError")
                     /\ pairs' = pairs
                     /\ pc' = "raised"
                ELSE /\ handleExc' = handleExc
                     /\ pairs' = ps
                     /\ pc' = IF entries(ps) = <<>> THEN "returned" ELSE "dedup"
    /\ UNCHANGED <<uow_arg, unit_of_work>>
    /\ UNCHANGED <<tagger_results_raw, model_tag_entries_list>>
    /\ UNCHANGED <<files, run, non_duplicate, tagger_results, outcome, image_ids, bodyExc,
                   imagesTable, modelTagTable, image_id_seq, submitted,
                   insertConflict, otherWrites>>

\* Step 3-4: filter_duplicates against the images repository, then
\* filter_by_entry_hashes.  The lookup is called outside any try block: an
\* error of its SELECT leaves handle.
Deduplicate ==
    /\ pc = "dedup"
    /\ \E err \in {None} \cup FindByHashesFailures :
         /\ trace' = Append(trace, Call("images", "find_by_hashes", 0, err # None))
         /\ IF err # None
            THEN /\ handleExc' = err
                 /\ pc' = "raised"
                 /\ UNCHANGED <<non_duplicate, pairs>>
            ELSE LET nd == filter_duplicates(entries(pairs), imagesTable)
                 IN  /\ handleExc' = handleExc
                     /\ non_duplicate' = nd
                     /\ IF nd = <<>>
                        THEN /\ pc' = "returned"
                             /\ pairs' = pairs
                        ELSE /\ pc' = "tag"
                             /\ pairs' = filter_by_entry_hashes(
                                             pairs, {nd[i].hash : i \in 1..Len(nd)})
    /\ UNCHANGED <<uow_arg, unit_of_work>>
    /\ UNCHANGED <<tagger_results_raw, model_tag_entries_list>>
    /\ UNCHANGED <<files, run, tagger_results, outcome, image_ids, bodyExc,
                   imagesTable, modelTagTable, image_id_seq, submitted, insertConflict,
                   otherWrites>>

\* Step 5: _tag over all binaries with raise_on_error=False, then Exception -> None.
Tag ==
    /\ pc = "tag"
    /\ \E raw \in [1..Len(binaries(pairs)) -> TagOutcomes] :
         /\ trace' = trace \o [i \in 1..Len(binaries(pairs)) |->
                                  Call("tagger", "tag", i, IsException(raw[i]))]
         /\ IF stage_raise_on_error("tag") /\ \E i \in 1..Len(raw) : IsException(raw[i])
            THEN /\ handleExc' = Exc("TaggingError")
                 /\ UNCHANGED <<tagger_results, tagger_results_raw>>
                 /\ pc' = "raised"
            ELSE /\ handleExc' = handleExc
                 /\ tagger_results_raw' = raw
                 /\ tagger_results' = exception_to_none(raw)
                 /\ pc' = "classify"
    /\ UNCHANGED <<uow_arg, unit_of_work>>
    /\ UNCHANGED model_tag_entries_list
    /\ UNCHANGED <<files, run, pairs, non_duplicate, outcome, image_ids, bodyExc,
                   imagesTable, modelTagTable, image_id_seq, submitted, insertConflict,
                   otherWrites>>

\* Step 6: classify and the has_any_success guard.
Classify ==
    /\ pc = "classify"
    /\ trace' = Append(trace, Call("classifier", "classify", 0, FALSE))
    /\ LET r == classify(entries(pairs), tagger_results)
       IN  IF r.raised
           THEN /\ handleExc' = Exc("ValueError")
                /\ outcome' = outcome
                /\ pc' = "raised"
           ELSE /\ handleExc' = handleExc
                /\ outcome' = r.outcome
                /\ pc' = IF has_any_success(r.outcome) THEN "images_insert" ELSE "returned"
    /\ UNCHANGED <<uow_arg, unit_of_work>>
    /\ UNCHANGED <<tagger_results_raw, model_tag_entries_list>>
    /\ UNCHANGED <<files, run, pairs, non_duplicate, tagger_results, image_ids, bodyExc,
                   imagesTable, modelTagTable, image_id_seq, submitted, insertConflict,
                   otherWrites>>

\* Step 7, "with self.unit_of_work:" and the first statement of its block:
\* images.insert.
ImagesInsert ==
    /\ pc = "images_insert"
    /\ LET es == [i \in 1..Len(outcome.success) |-> outcome.success[i].image_entry]
           r == images_insert(imagesTable, image_id_seq, es, run)
       IN  /\ trace' = trace \o enter_then_insert(r.raised # None)
           /\ submitted' = es
           /\ insertConflict' = {es[i].hash : i \in 1..Len(es)}
                                \cap {row.hash : row \in imagesTable}
           /\ imagesTable' = r.table
           /\ image_id_seq' = r.seq
           /\ image_ids' = r.ids
           /\ bodyExc' = r.raised
           /\ pc' = IF r.raised = None THEN "model_tag_insert" ELSE "scope_exit"
    /\ UNCHANGED <<uow_arg, unit_of_work>>
    /\ UNCHANGED <<tagger_results_raw, model_tag_entries_list>>
    /\ UNCHANGED <<files, run, pairs, non_duplicate, tagger_results, outcome, handleExc,
                   modelTagTable, otherWrites>>

\* Step 7, second statement: build the ModelTagEntries with zip(strict=True)
\* and model_tag.insert.
ModelTagInsert ==
    /\ pc = "model_tag_insert"
    /\ IF Len(image_ids) # Len(outcome.success)
       THEN /\ bodyExc' = Exc("ValueError")
            /\ modelTagTable' = modelTagTable
            /\ trace' = trace
            /\ model_tag_entries_list' = model_tag_entries_list
       ELSE \E err \in {None} \cup ModelTagInsertFailures :
              LET built == build_model_tag_entries(image_ids, outcome.success)
                  r == model_tag_insert(modelTagTable, built, err, run)
              IN  /\ model_tag_entries_list' = built
                  /\ bodyExc' = r.raised
                  /\ modelTagTable' = r.table
                  /\ trace' = Append(trace, Call("model_tag", "insert", 0, r.raised # None))
    /\ pc' = "scope_exit"
    /\ UNCHANGED <<uow_arg, unit_of_work>>
    /\ UNCHANGED tagger_results_raw
    /\ UNCHANGED <<files, run, pairs, non_duplicate, tagger_results, outcome, image_ids,
                   handleExc, imagesTable, image_id_seq, submitted, insertConflict,
                   otherWrites>>

\* End of the with block: UnitOfWork.__exit__ over images and model_tag.  The
\* connections have no open transaction: commit() has nothing to commit and
\* rollback() has nothing to undo, whether the library reports that as an
\* error or not.
ScopeExit ==
    /\ pc = "scope_exit"
    /\ \E failAt \in (IF bodyExc = None THEN {0} ELSE 0..Len(unit_of_work)) :
         LET r == uow_exit(unit_of_work, bodyExc, failAt)
         IN  /\ handleExc' = r.propagated
             /\ trace' = Append(trace, Call("unit_of_work", "__exit__", 0, FALSE))
                            \o [k \in 1..Len(r.calls) |->
                                   Call(r.calls[k].repo.name, r.calls[k].op, 0, r.calls[k].raised)]
             /\ pc' = IF r.propagated = None THEN "returned" ELSE "raised"
    /\ UNCHANGED <<uow_arg, unit_of_work>>
    /\ UNCHANGED <<tagger_results_raw, model_tag_entries_list>>
    /\ UNCHANGED <<files, run, pairs, non_duplicate, tagger_results, outcome, image_ids,
                   bodyExc, imagesTable, modelTagTable, image_id_seq, submitted,
                   insertConflict, otherWrites>>

\* Another writer (a second invocation, another process) inserts one image
\* through its own images repository.
OtherWriter ==
    /\ pc # "off"
    /\ otherWrites < MaxOtherWrites
    /\ \E c \in Contents :
         LET r == images_insert(imagesTable, image_id_seq,
                                <<ImageEntry(0, c)>>, 0)
         IN  /\ r.raised = None
             /\ imagesTable' = r.table
             /\ image_id_seq' = r.seq
    /\ otherWrites' = otherWrites + 1
    /\ UNCHANGED <<uow_arg, unit_of_work>>
    /\ UNCHANGED <<tagger_results_raw, model_tag_entries_list>>
    /\ UNCHANGED <<files, pc, run, pairs, non_duplicate, tagger_results, outcome, image_ids,
                   bodyExc, handleExc, modelTagTable, submitted, insertConflict, trace>>

HNext ==
    \/ HandleCall
    \/ Extract
    \/ Deduplicate
    \/ Tag
    \/ Classify
    \/ ImagesInsert
    \/ ModelTagInsert
    \/ ScopeExit
    \/ OtherWriter

(***************************************************************************)
(* A UnitOfWork used as a scope over any repositories                      *)
(***************************************************************************)
UInit ==
    /\ uRepos \in RepoDicts
    /\ uSubset = None
    /\ uPc = "idle"
    /\ uBodyExc = None
    /\ uCalls = <<>>
    /\ uPropagated = None

UIdle ==
    /\ uRepos = <<>>
    /\ uSubset = None
    /\ uPc = "off"
    /\ uBodyExc = None
    /\ uCalls = <<>>
    /\ uPropagated = None

\* subset(keys) is called on the UnitOfWork.
UowSubset ==
    /\ uPc = "idle"
    /\ uSubset = None
    /\ \E keys \in SeqsUpTo(RepoNames, MaxKeys) :
         LET r == subset(uRepos, keys)
         IN  /\ uSubset' = [kind |-> "Subset", keys |-> keys, before |-> uRepos,
                            raised |-> r.raised, child |-> r.child]
             /\ uRepos' = r.parent
    /\ UNCHANGED <<uPc, uBodyExc, uCalls, uPropagated>>

\* __enter__
UowEnter ==
    /\ uPc = "idle"
    /\ uPc' = "entered"
    /\ UNCHANGED <<uRepos, uSubset, uBodyExc, uCalls, uPropagated>>

\* The body of the with statement runs to its end or raises.
UowBody ==
    /\ uPc = "entered"
    /\ \E exc \in {None, Exc("BodyError")} : uBodyExc' = exc
    /\ uPc' = "body_done"
    /\ UNCHANGED <<uRepos, uSubset, uCalls, uPropagated>>

\* __exit__: each commit / rollback call of a repository returns or raises.
UowExit ==
    /\ uPc = "body_done"
    /\ \E failAt \in 0..Len(uRepos) :
         LET r == uow_exit(uRepos, uBodyExc, failAt)
         IN  /\ uCalls' = r.calls
             /\ uPropagated' = r.propagated
    /\ uPc' = "exited"
    /\ UNCHANGED <<uRepos, uSubset, uBodyExc>>

UNext ==
    \/ UowSubset
    \/ UowEnter
    \/ UowBody
    \/ UowExit

(***************************************************************************)
(* TaggingResultClassifier.classify on bounded inputs                       *)
(***************************************************************************)
ClassifierEntries == {ImageEntry(1, 1), ImageEntry(2, 2)}

CInit ==
    /\ cEntries \in SeqsUpTo(ClassifierEntries, MaxLen)
    /\ cResults \in SeqsUpTo({None} \cup TaggerResults, MaxLen)
    /\ cPc = "ready"
    /\ cOutcome = EmptyOutcome

CIdle ==
    /\ cEntries = <<>>
    /\ cResults = <<>>
    /\ cPc = "off"
    /\ cOutcome = EmptyOutcome

CallClassify ==
    /\ cPc = "ready"
    /\ LET r == classify(cEntries, cResults)
       IN  /\ cPc' = IF r.raised THEN "raised" ELSE "done"
           /\ cOutcome' = r.outcome
    /\ UNCHANGED <<cEntries, cResults>>

CNext == CallClassify

(***************************************************************************)
(* ImageDeduplicationService.filter_duplicates on bounded inputs            *)
(***************************************************************************)
\* Candidate lists: the entry at position i is the file at location i.
CandidateLists ==
    {[i \in 1..Len(cs) |-> ImageEntry(i, cs[i])] : cs \in SeqsUpTo(Contents, MaxCandidates)}

\* Stored tables: at most one row per hash.
StoredTables ==
    {{[image_id |-> c, hash |-> from_binary(c), file_location |-> 0, by |-> 0] : c \in S} :
        S \in SUBSET Contents}

DInit ==
    /\ dCandidates \in CandidateLists
    /\ dStored \in StoredTables
    /\ dPc = "ready"
    /\ dResult = <<>>

DIdle ==
    /\ dCandidates = <<>>
    /\ dStored = {}
    /\ dPc = "off"
    /\ dResult = <<>>

CallFilterDuplicates ==
    /\ dPc = "ready"
    /\ dResult' = filter_duplicates(dCandidates, dStored)
    /\ dPc' = "done"
    /\ UNCHANGED <<dCandidates, dStored>>

DNext == CallFilterDuplicates

(***************************************************************************)
(* execute_parallel                                                        *)
(***************************************************************************)
ArgValues == {1, 2}

\* One keyword argument k=1; 0 stands for the empty dict {} and, as a
\* positional argument, for the empty tuple ().
KwValues == {1}

\* func applied to one task's arguments: it returns a value computed from
\* both or raises an error that carries the positional argument.
func(failing, x, kw) ==
    IF x \in failing
    THEN [kind |-> "Exception", name |-> "TaskError", arg |-> x]
    ELSE [kind |-> "Value", value |-> 10 * x + kw]

ValueError(message) == [kind |-> "Exception", name |-> "ValueError", message |-> message]

\* A list argument: given = FALSE is None.
ListArgs(S) == {[given |-> FALSE, list |-> <<>>]} \cup
               {[given |-> TRUE, list |-> l] : l \in SeqsUpTo(S, MaxTasks)}

\* The validation, the defaults and the length adjustment: the error raised,
\* or the two lists the tasks are built from.
adjust_lists(al, kl) ==
    LET a == IF al.given THEN al.list ELSE <<>>
        k == IF kl.given THEN kl.list ELSE <<>>
    IN  IF ~al.given /\ ~kl.given
        THEN [raised |-> ValueError("args_list and kwargs_list must be provided"),
              args |-> <<>>, kwargs |-> <<>>]
        ELSE IF a # <<>> /\ k # <<>>
        THEN IF Len(a) # Len(k)
             THEN [raised |-> ValueError("args_list and kwargs_list must have the same length"),
                   args |-> <<>>, kwargs |-> <<>>]
             ELSE [raised |-> None, args |-> a, kwargs |-> k]
        ELSE IF a # <<>>
        THEN [raised |-> None, args |-> a, kwargs |-> [i \in 1..Len(a) |-> 0]]
        ELSE [raised |-> None, args |-> [i \in 1..Len(k) |-> 0], kwargs |-> k]

Running == {i \in 1..Len(exStatus) : exStatus[i] = "running"}

Pending == {i \in 1..Len(exStatus) : exStatus[i] = "pending"}

max_workers_per_task(n_workers, num_tasks) == num_tasks

\* executor_class(max_workers=n_workers): the size of the pool.
max_workers(n_workers, num_tasks) == n_workers

ResultSlotByCompletion(idx, yielded) == Cardinality(yielded) + 1

\* idx = futures[future]: the slot of results a yielded future is stored in.
ResultSlot(idx, yielded) == idx

submitted_task_last(args, kwargs, idx) ==
    [idx |-> idx, x |-> args[Len(args)], kw |-> kwargs[Len(kwargs)]]

\* ex.submit(func, *args, **kwargs) of task idx: the arguments func runs with.
submitted_task(args, kwargs, idx) == [idx |-> idx, x |-> args[idx], kw |-> kwargs[idx]]

pool_drained_no_wait(status) == TRUE

\* The exit of "with executor_class(...) as ex": shutdown(wait=True) returns
\* once every submitted work item has run.
pool_drained(status) == \A i \in 1..Len(status) : status[i] = "done"

MustRaiseAlways(raise_on_error) == TRUE

MustRaiseNever(raise_on_error) == FALSE

\* The except clause of the collecting loop re-raises only with raise_on_error.
MustRaise(raise_on_error) == raise_on_error

EInit ==
    /\ args_list \in ListArgs(ArgValues)
    /\ kwargs_list \in ListArgs(KwValues)
    /\ exArgs = <<>>
    /\ exKwargs = <<>>
    /\ exInvalid = None
    /\ exLate = {}
    /\ exHanging \in SUBSET ArgValues
    /\ exCalls = <<>>
    /\ exFailing \in SUBSET ArgValues
    /\ exWorkers \in 1..MaxWorkers
    /\ exRaise \in BOOLEAN
    /\ exPc = "ready"
    /\ exStatus = <<>>
    /\ exOrder = <<>>
    /\ exYielded = {}
    /\ exResults = <<>>
    /\ exErr = None

EIdle ==
    /\ args_list = [given |-> FALSE, list |-> <<>>]
    /\ kwargs_list = [given |-> FALSE, list |-> <<>>]
    /\ exArgs = <<>>
    /\ exKwargs = <<>>
    /\ exInvalid = None
    /\ exLate = {}
    /\ exHanging = {}
    /\ exCalls = <<>>
    /\ exFailing = {}
    /\ exWorkers = 1
    /\ exRaise = FALSE
    /\ exPc = "off"
    /\ exStatus = <<>>
    /\ exOrder = <<>>
    /\ exYielded = {}
    /\ exResults = <<>>
    /\ exErr = None

\* The validation and adjustment of the two lists, then
\* results = [None] * num_tasks and one ex.submit per (args, kwargs) pair.
ExSubmit ==
    /\ exPc = "ready"
    /\ LET adj == adjust_lists(args_list, kwargs_list)
       IN  IF adj.raised # None
           THEN /\ exInvalid' = adj.raised
                /\ exPc' = "invalid"
                /\ UNCHANGED <<exArgs, exKwargs, exResults, exStatus>>
           ELSE /\ exArgs' = adj.args
                /\ exKwargs' = adj.kwargs
                /\ exResults' = [i \in 1..Len(adj.args) |-> None]
                /\ exStatus' = [i \in 1..Len(adj.args) |-> "pending"]
                /\ exPc' = "collecting"
                /\ UNCHANGED exInvalid
    /\ UNCHANGED <<exCalls, exHanging, args_list, kwargs_list, exLate, exFailing, exWorkers, exRaise, exOrder,
                   exYielded, exErr>>

\* A free worker of the pool takes the oldest queued work item.
ExWorkerStart ==
    /\ exPc \in {"collecting", "shutdown"}
    /\ Pending # {}
    /\ Cardinality(Running) < max_workers(exWorkers, Len(exArgs))
    /\ LET i == CHOOSE k \in Pending : \A m \in Pending : k <= m
       IN  /\ exStatus' = [exStatus EXCEPT ![i] = "running"]
           /\ exLate' = IF exPc = "shutdown" THEN exLate \cup {i} ELSE exLate
           /\ exCalls' = Append(exCalls, submitted_task(exArgs, exKwargs, i))
    /\ UNCHANGED <<exHanging, args_list, kwargs_list, exArgs, exKwargs, exInvalid, exFailing, exWorkers,
                   exRaise, exPc, exOrder, exYielded, exResults, exErr>>

\* A running invocation of func returns or raises, unless it hangs; its
\* future completes.
ExWorkerFinish ==
    /\ exPc \in {"collecting", "shutdown"}
    /\ \E i \in Running :
         /\ exArgs[i] \notin exHanging
         /\ exStatus' = [exStatus EXCEPT ![i] = "done"]
         /\ exOrder' = Append(exOrder, i)
    /\ UNCHANGED <<exCalls, exHanging, args_list, kwargs_list, exArgs, exKwargs, exInvalid, exLate, exFailing,
                   exWorkers, exRaise, exPc, exYielded, exResults, exErr>>

\* One iteration of "for future in as_completed(futures)".
ExCollect ==
    /\ exPc = "collecting"
    /\ \E idx \in 1..Len(exArgs) :
         /\ exStatus[idx] = "done"
         /\ idx \notin exYielded
         /\ exYielded' = exYielded \cup {idx}
         /\ LET r == func(exFailing, exArgs[idx], exKwargs[idx])
            IN  IF IsException(r) /\ MustRaise(exRaise)
                THEN /\ exErr' = r
                     /\ exPc' = "shutdown"
                     /\ exResults' = exResults
                ELSE /\ exErr' = exErr
                     /\ exPc' = exPc
                     /\ exResults' = [exResults EXCEPT ![ResultSlot(idx, exYielded)] = r]
    /\ UNCHANGED <<exCalls, exHanging, args_list, kwargs_list, exArgs, exKwargs, exInvalid, exLate, exFailing,
                   exWorkers, exRaise, exStatus, exOrder>>

\* Every future was yielded: the with block ends, shutdown(wait=True)
\* returns, and results is returned.
ExReturn ==
    /\ exPc = "collecting"
    /\ exYielded = 1..Len(exArgs)
    /\ pool_drained(exStatus)
    /\ exPc' = "returned"
    /\ UNCHANGED <<exCalls, exHanging, args_list, kwargs_list, exArgs, exKwargs, exInvalid, exLate, exFailing,
                   exWorkers, exRaise, exStatus, exOrder, exYielded, exResults, exErr>>

\* The exception leaves the with block: shutdown(wait=True) waits until the
\* pool has run every submitted work item, then the exception goes on.
ExShutdown ==
    /\ exPc = "shutdown"
    /\ pool_drained(exStatus)
    /\ exPc' = "raised"
    /\ UNCHANGED <<exCalls, exHanging, args_list, kwargs_list, exArgs, exKwargs, exInvalid, exLate, exFailing,
                   exWorkers, exRaise, exStatus, exOrder, exYielded, exResults, exErr>>

ENext ==
    \/ ExSubmit
    \/ ExWorkerStart
    \/ ExWorkerFinish
    \/ ExCollect
    \/ ExReturn
    \/ ExShutdown

(***************************************************************************)
(* The stages of handle, task by task                                      *)
(***************************************************************************)
stage_complete_first_done(status) == \E i \in 1..Len(status) : status[i] = "done"

\* parallel.execute(..., raise_on_error=False) returns: the loop over
\* as_completed has met every future of the stage.
stage_complete(status) == \A i \in 1..Len(status) : status[i] = "done"

\* handle was called on a non-empty file list and the extract stage has
\* submitted one task per file.
SInit ==
    /\ sPc = "extract"
    /\ sWorkers \in 1..MaxWorkers
    /\ sExtract \in {[i \in 1..n |-> "pending"] : n \in 1..MaxStageTasks}
    /\ sTag = <<>>
    /\ sLookup = "not_called"
    /\ sEntered = FALSE

SIdle ==
    /\ sPc = "off"
    /\ sWorkers = 1
    /\ sExtract = <<>>
    /\ sTag = <<>>
    /\ sLookup = "not_called"
    /\ sEntered = FALSE

\* A free worker of the pool of the extract stage takes the oldest queued task.
SExtractStart ==
    /\ \E i \in 1..Len(sExtract) :
         /\ sExtract[i] = "pending"
         /\ \A j \in 1..(i - 1) : sExtract[j] # "pending"
         /\ Cardinality({j \in 1..Len(sExtract) : sExtract[j] = "running"})
                < max_workers(sWorkers, Len(sExtract))
         /\ sExtract' = [sExtract EXCEPT ![i] = "running"]
    /\ UNCHANGED <<sPc, sWorkers, sTag, sLookup, sEntered>>

\* An _extract_metadata task returns or raises.
SExtractFinish ==
    /\ \E i \in 1..Len(sExtract) :
         /\ sExtract[i] = "running"
         /\ sExtract' = [sExtract EXCEPT ![i] = "done"]
    /\ UNCHANGED <<sPc, sWorkers, sTag, sLookup, sEntered>>

\* The extract stage has returned: with no valid entry handle returns;
\* otherwise the dedup lookup is made and, unless every entry is a duplicate,
\* the tag stage submits one task per surviving pair.
SDedup ==
    /\ sPc = "extract"
    /\ stage_complete(sExtract)
    /\ \E valid \in 0..Len(sExtract) :
         IF valid = 0
         THEN /\ sPc' = "returned"
              /\ UNCHANGED <<sTag, sLookup>>
         ELSE \E survivors \in 0..valid :
                /\ sLookup' = "returned"
                /\ sTag' = [j \in 1..survivors |-> "pending"]
                /\ sPc' = IF survivors = 0 THEN "returned" ELSE "tag"
    /\ UNCHANGED <<sWorkers, sExtract, sEntered>>

\* A free worker of the pool of the tag stage takes the oldest queued task.
STagStart ==
    /\ \E i \in 1..Len(sTag) :
         /\ sTag[i] = "pending"
         /\ \A j \in 1..(i - 1) : sTag[j] # "pending"
         /\ Cardinality({j \in 1..Len(sTag) : sTag[j] = "running"})
                < max_workers(sWorkers, Len(sTag))
         /\ sTag' = [sTag EXCEPT ![i] = "running"]
    /\ UNCHANGED <<sPc, sWorkers, sExtract, sLookup, sEntered>>

\* A _tag task returns or raises.
STagFinish ==
    /\ \E i \in 1..Len(sTag) :
         /\ sTag[i] = "running"
         /\ sTag' = [sTag EXCEPT ![i] = "done"]
    /\ UNCHANGED <<sPc, sWorkers, sExtract, sLookup, sEntered>>

\* The tag stage has returned: classify, then the with block is entered
\* unless no entry was tagged with success.
SPersist ==
    /\ sPc = "tag"
    /\ stage_complete(sTag)
    /\ \E any_success \in BOOLEAN :
         /\ sEntered' = any_success
         /\ sPc' = IF any_success THEN "scope" ELSE "returned"
    /\ UNCHANGED <<sWorkers, sExtract, sTag, sLookup>>

\* The with block ends.
SScopeExit ==
    /\ sPc = "scope"
    /\ sPc' = "returned"
    /\ UNCHANGED <<sWorkers, sExtract, sTag, sLookup, sEntered>>

SNext ==
    \/ SExtractStart
    \/ SExtractFinish
    \/ SDedup
    \/ STagStart
    \/ STagFinish
    \/ SPersist
    \/ SScopeExit

(***************************************************************************)
(* Specifications                                                          *)
(***************************************************************************)
Init == HInit /\ UIdle /\ EIdle /\ CIdle /\ DIdle /\ SIdle

Next == HNext /\ UNCHANGED <<uVars, eVars, cVars, dVars, sVars>>

Spec == Init /\ [][Next]_vars

InitUow == UInit /\ HIdle /\ EIdle /\ CIdle /\ DIdle /\ SIdle

NextUow == UNext /\ UNCHANGED <<hVars, eVars, cVars, dVars, sVars>>

SpecUow == InitUow /\ [][NextUow]_vars

InitExec == EInit /\ HIdle /\ UIdle /\ CIdle /\ DIdle /\ SIdle

NextExec == ENext /\ UNCHANGED <<hVars, uVars, cVars, dVars, sVars>>

SpecExec == InitExec /\ [][NextExec]_vars

\* The main thread and the workers of the pool keep running: a step that
\* stays possible is taken.
FairExec ==
    /\ WF_vars(ExSubmit /\ UNCHANGED <<hVars, uVars, cVars, dVars, sVars>>)
    /\ WF_vars(ExWorkerStart /\ UNCHANGED <<hVars, uVars, cVars, dVars, sVars>>)
    /\ WF_vars(ExWorkerFinish /\ UNCHANGED <<hVars, uVars, cVars, dVars, sVars>>)
    /\ WF_vars(ExCollect /\ UNCHANGED <<hVars, uVars, cVars, dVars, sVars>>)
    /\ WF_vars(ExReturn /\ UNCHANGED <<hVars, uVars, cVars, dVars, sVars>>)
    /\ WF_vars(ExShutdown /\ UNCHANGED <<hVars, uVars, cVars, dVars, sVars>>)

SpecExecFair == InitExec /\ [][NextExec]_vars /\ FairExec

InitStages == SInit /\ HIdle /\ UIdle /\ EIdle /\ CIdle /\ DIdle

NextStages == SNext /\ UNCHANGED <<hVars, uVars, eVars, cVars, dVars>>

SpecStages == InitStages /\ [][NextStages]_vars

InitClassify == CInit /\ HIdle /\ UIdle /\ EIdle /\ DIdle /\ SIdle

NextClassify == CNext /\ UNCHANGED <<hVars, uVars, eVars, dVars, sVars>>

SpecClassify == InitClassify /\ [][NextClassify]_vars

InitDedup == DInit /\ HIdle /\ UIdle /\ EIdle /\ CIdle /\ SIdle

NextDedup == DNext /\ UNCHANGED <<hVars, uVars, eVars, cVars, sVars>>

SpecDedup == InitDedup /\ [][NextDedup]_vars

(***************************************************************************)
(* Properties                                                              *)
(***************************************************************************)
Count(e, s) == Cardinality({i \in 1..Len(s) : s[i] = e})

\* The elements of s at the positions in I, in increasing position.
SubSeqAt(s, I) ==
    LET nth(k) == CHOOSE i \in I : Cardinality({j \in I : j < i}) = k - 1
    IN  [k \in 1..Cardinality(I) |-> s[nth(k)]]

RowsWithHash(h) == {row \in imagesTable : row.hash = h}

\* C1: when the model_tag insert raises after the images insert returned ids,
\* no image row and no tag row written by that handle call is visible once
\* handle has exited.
C1_AtomicPersistence ==
    (pc = "raised" /\ image_ids # <<>> /\ bodyExc \in ModelTagInsertFailures)
        => /\ \A row \in imagesTable : row.by # run
           /\ \A row \in modelTagTable : row.by # run

\* C2: when a scope is exited, every managed repository has received exactly
\* one call, a commit or a rollback, whatever the calls did.
C2_OneCallPerRepository ==
    uPc = "exited"
        => \A i \in 1..Len(uRepos) :
              Cardinality({k \in 1..Len(uCalls) : uCalls[k].repo = uRepos[i]}) = 1

\* C3: a body that raised gets rollback and never commit on the managed
\* repositories and its own exception reaches the caller; a body that ended
\* normally gets commit and never rollback.
C3_RollbackAndPropagate ==
    uPc = "exited"
        => /\ \A k \in 1..Len(uCalls) : uCalls[k].op = exit_method(uBodyExc)
           /\ \A i \in 1..Len(uRepos) : \E k \in 1..Len(uCalls) : uCalls[k].repo = uRepos[i]
           /\ uBodyExc # None => uPropagated = uBodyExc

\* C4: the returned list has one slot per argument tuple and slot i holds the
\* outcome of func on args_list[i], whatever the completion order.
C4_OrderPreserved ==
    exPc = "returned"
        => /\ Len(exResults) = Len(exArgs)
           /\ \A i \in 1..Len(exArgs) : exResults[i] = func(exFailing, exArgs[i], exKwargs[i])

C4_Witness ==
    /\ exPc = "returned"
    /\ Len(exArgs) >= 2
    /\ exOrder[1] # 1
    /\ exArgs[exOrder[1]] # exArgs[1]

\* C5: with raise_on_error=False the call never raises; it returns with the
\* error of each failing task and the value of each other task at the task's
\* own index.
C5_ErrorsCaptured ==
    ~exRaise
        => /\ exPc \notin {"shutdown", "raised"}
           /\ exErr = None
           /\ exPc = "returned"
                => \A i \in 1..Len(exArgs) :
                      IF exArgs[i] \in exFailing
                      THEN exResults[i].kind = "Exception" /\ exResults[i].arg = exArgs[i]
                      ELSE exResults[i].kind = "Value"
                           /\ exResults[i].value = 10 * exArgs[i] + exKwargs[i]

C5_Witness ==
    /\ exPc = "returned"
    /\ ~exRaise
    /\ \E i, j \in 1..Len(exArgs) : exArgs[i] \in exFailing /\ exArgs[j] \notin exFailing

\* C6: over consecutive handle calls on the same files no hash is inserted
\* twice by handle, and a later call hands to the images insert no entry whose
\* hash an earlier call stored.
C6_IdempotentRerun ==
    /\ \A row \in imagesTable :
          Cardinality({r \in RowsWithHash(row.hash) : r.by >= 1}) <= 1
    /\ \A i \in 1..Len(submitted) :
          ~\E row \in imagesTable :
              row.by >= 1 /\ row.by < run /\ row.hash = submitted[i].hash

C6_Witness ==
    /\ run = 2
    /\ pc = "returned"
    /\ pairs # <<>>
    /\ non_duplicate = <<>>
    /\ \A i \in 1..Len(pairs) :
          \E row \in imagesTable : row.by = 1 /\ row.hash = pairs[i].entry.hash

\* C7: handle never hands two entries with the same hash to the images insert.
C7_DistinctHashesSubmitted ==
    \A i, j \in 1..Len(submitted) : i # j => submitted[i].hash # submitted[j].hash

\* C8: when a hash that passed the dedup lookup is in the table at the time
\* the images insert runs, the insert raises DuplicateImageError and the table
\* holds exactly one row with that hash.
C8_RaceIsDuplicateImageError ==
    insertConflict # {}
        => /\ bodyExc = Exc("DuplicateImageError")
           /\ \A h \in insertConflict : Cardinality(RowsWithHash(h)) = 1

C8_Witness ==
    /\ insertConflict # {}
    /\ pc = "raised"
    /\ \A h \in insertConflict : \E i \in 1..Len(non_duplicate) : non_duplicate[i].hash = h

\* C9: for lists of equal length the three buckets together have as many
\* elements as the entry list, and every entry occurs in the buckets exactly
\* as often as in the entry list.
C9_PartitionComplete ==
    cPc = "done"
        => /\ Len(cOutcome.success) + Len(cOutcome.failure) + Len(cOutcome.empty)
                = Len(cEntries)
           /\ \A e \in ClassifierEntries :
                 Count(e, [i \in 1..Len(cOutcome.success) |-> cOutcome.success[i].image_entry])
                 + Count(e, cOutcome.failure) + Count(e, cOutcome.empty)
                    = Count(e, cEntries)

C9_Witness ==
    /\ cPc = "done"
    /\ Len(cOutcome.success) >= 1
    /\ Len(cOutcome.failure) >= 1
    /\ Len(cOutcome.empty) >= 1

\* C10: failure holds the entries whose result is None, empty those whose
\* result has no tag in any category, success the remaining (entry, result)
\* pairs, each bucket in input order.
C10_ClassificationRule ==
    cPc = "done"
        => LET idx == 1..Len(cEntries)
               nulls == {i \in idx : cResults[i] = None}
               tagless == {i \in idx \ nulls :
                              cResults[i].general = <<>> /\ cResults[i].character = <<>>}
               tagged == idx \ (nulls \cup tagless)
           IN  /\ cOutcome.failure = SubSeqAt(cEntries, nulls)
               /\ cOutcome.empty = SubSeqAt(cEntries, tagless)
               /\ cOutcome.success =
                     SubSeqAt([i \in idx |-> TaggedImageEntry(cEntries[i], cResults[i])], tagged)

C10_Witness ==
    /\ cPc = "done"
    /\ Len(cOutcome.failure) >= 2
    /\ cOutcome.failure[1] # cOutcome.failure[2]
    /\ Len(cOutcome.success) >= 1

\* C11: filter_duplicates returns exactly the candidates whose hash no stored
\* row carries, in their input order.
C11_DedupCorrect ==
    dPc = "done"
        => dResult = SubSeqAt(dCandidates,
                              {i \in 1..Len(dCandidates) :
                                  \A row \in dStored : row.hash # dCandidates[i].hash})

\* [A, B, C] with only B's hash stored gives [A, C].
C11_Witness ==
    /\ dPc = "done"
    /\ Len(dCandidates) = 3
    /\ {row.hash : row \in dStored} = {dCandidates[2].hash}
    /\ dResult = <<dCandidates[1], dCandidates[3]>>

\* C12: at no time are more than n_workers invocations of func running.
C12_BoundedConcurrency == Cardinality(Running) <= exWorkers

\* The pool is full while tasks wait in its queue.
C12_Witness ==
    /\ Cardinality(Running) = exWorkers
    /\ Pending # {}
    /\ Len(exArgs) > exWorkers

\* C13: with raise_on_error=True no queued task starts after a task error was
\* re-raised by the collecting loop.
C13_NoStartAfterError == exLate = {}

\* Outcome of task i.
TaskOutcome(i) == func(exFailing, exArgs[i], exKwargs[i])

\* C14: with raise_on_error=True the call returns only if no task raised, and
\* then with every task's value at its index; otherwise it raises the error
\* of the one failed task the collecting loop met, every future met before it
\* having succeeded.
C14_FirstErrorRaised ==
    exRaise
        => /\ exPc = "returned"
                => \A i \in 1..Len(exArgs) :
                      ~IsException(TaskOutcome(i)) /\ exResults[i] = TaskOutcome(i)
           /\ exPc \in {"shutdown", "raised"}
                => \E idx \in exYielded :
                      /\ IsException(TaskOutcome(idx))
                      /\ exErr = TaskOutcome(idx)
                      /\ \A j \in exYielded \ {idx} : ~IsException(TaskOutcome(j))
           /\ (exPc \in {"collecting", "returned"} /\ exYielded # {})
                => \A j \in exYielded : ~IsException(TaskOutcome(j))

\* Two tasks fail; the call raises the one met after a successful task.
C14_Witness ==
    /\ exRaise
    /\ exPc = "raised"
    /\ Cardinality(exYielded) = 2
    /\ \E i \in 1..Len(exArgs) : i \notin exYielded /\ IsException(TaskOutcome(i))

\* C15: when args_list and kwargs_list are both given with different lengths
\* the call fails in the validation: nothing is submitted and func never runs.
C15_UnequalLengthsRejected ==
    (args_list.given /\ kwargs_list.given /\ Len(args_list.list) # Len(kwargs_list.list))
        => /\ exPc \in {"off", "ready", "invalid"}
           /\ exStatus = <<>>

\* Positions in trace of the calls target.op of the current handle call.
CallsOf(target, op) ==
    {k \in 1..Len(trace) : trace[k].target = target /\ trace[k].op = op}

\* Files whose read_binary raised, files whose extraction failed, and pairs
\* whose tagger call raised, in the current handle call.
ReadRaised == {trace[k].arg : k \in {c \in CallsOf("storage", "read_binary") : trace[c].raised}}

ExtractFailed ==
    ReadRaised \cup {i \in 1..Len(files) : extract_from_file(i, files[i]) = None}

TagRaised == {trace[k].arg : k \in {c \in CallsOf("tagger", "tag") : trace[c].raised}}

\* C16: called with an empty file list, handle returns at once: it calls none
\* of its collaborators, writes no row and raises nothing.
C16_EmptyInputGuard ==
    (run >= 1 /\ files = <<>>)
        => /\ pc = "returned"
           /\ trace = <<>>
           /\ handleExc = None
           /\ \A row \in imagesTable \cup modelTagTable : row.by = 0

C16_Witness ==
    /\ run = 1
    /\ files = <<>>
    /\ pc = "returned"

\* C17: once handle has classified and ended, a classification without
\* success means the UnitOfWork was neither entered nor left and no insert,
\* commit or rollback was called; one with a success means the UnitOfWork
\* was entered once and left once.
C17_ScopeOnlyOnSuccess ==
    (pc \in {"returned", "raised"} /\ CallsOf("classifier", "classify") # {})
        => IF Len(outcome.success) = 0
           THEN \A k \in 1..Len(trace) :
                   /\ trace[k].target # "unit_of_work"
                   /\ trace[k].op \notin {"insert", "commit", "rollback"}
           ELSE /\ Cardinality(CallsOf("unit_of_work", "__enter__")) = 1
                /\ Cardinality(CallsOf("unit_of_work", "__exit__")) = 1

\* Every tagged entry ended in failure or empty.
C17_Witness ==
    /\ pc = "returned"
    /\ CallsOf("classifier", "classify") # {}
    /\ Len(outcome.success) = 0
    /\ Len(outcome.failure) >= 1
    /\ Len(outcome.empty) >= 1

\* C18: a file whose read or extraction failed is left out of the entries
\* given to the later stages while the other files go on, handle never raises
\* the extraction error, and when every file failed handle returns without
\* an insert.
C18_ExtractionFailuresAbsorbed ==
    /\ handleExc # Exc("StorageError")
    /\ pc = "dedup"
         => entries(pairs) = SubSeqAt([i \in 1..Len(files) |-> ImageEntry(i, files[i])],
                                      (1..Len(files)) \ ExtractFailed)
    /\ \A k \in 1..Len(pairs) : pairs[k].entry.file_location \notin ExtractFailed
    /\ (CallsOf("storage", "read_binary") # {} /\ ExtractFailed = 1..Len(files))
         => /\ pc = "returned"
            /\ handleExc = None
            /\ \A k \in 1..Len(trace) : trace[k].op # "insert"

\* One file could not be read; the other one was stored.
C18_Witness ==
    /\ pc = "returned"
    /\ handleExc = None
    /\ ReadRaised # {}
    /\ submitted # <<>>
    /\ \E row \in imagesTable : row.by = run

C20_RaisesOnlyFromScope ==
    pc = "raised"
        => /\ CallsOf("unit_of_work", "__enter__") # {}
           /\ bodyExc # None

\* C21: classify called with lists of different lengths raises and hands no
\* classified entry to its caller.
C21_UnequalLengthsRaise ==
    (cPc \in {"done", "raised"} /\ Len(cEntries) # Len(cResults))
        => /\ cPc = "raised"
           /\ total_count(cOutcome) = 0

\* Both lists hold elements, so a part of them could have been classified.
C21_Witness ==
    /\ cPc = "raised"
    /\ Len(cEntries) >= 1
    /\ Len(cResults) >= 1
    /\ Len(cEntries) # Len(cResults)

\* C22: subset(keys) leaves the repositories of the UnitOfWork it is called on
\* as they were; when every key is managed it returns a UnitOfWork over
\* exactly the named repositories, each the instance the parent holds under
\* that name; otherwise it raises and returns none.
C22_SubsetRestricts ==
    uSubset # None
        => /\ uRepos = uSubset.before
           /\ IF Range(uSubset.keys) \subseteq Names(uSubset.before)
              THEN /\ uSubset.raised = None
                   /\ Names(uSubset.child) = Range(uSubset.keys)
                   /\ Len(uSubset.child) = Cardinality(Range(uSubset.keys))
                   /\ \A i \in 1..Len(uSubset.child) :
                         \E j \in 1..Len(uSubset.before) :
                            uSubset.before[j] = uSubset.child[i]
              ELSE /\ uSubset.raised # None
                   /\ uSubset.child = <<>>

\* A proper subset whose first repository is not the parent's first one and
\* maps to another instance than the parent's first one.
C22_Witness ==
    /\ uSubset # None
    /\ uSubset.raised = None
    /\ Len(uSubset.child) >= 1
    /\ Len(uSubset.child) < Len(uSubset.before)
    /\ uSubset.child[1].name # uSubset.before[1].name
    /\ uSubset.child[1].repo # uSubset.before[1].repo

\* C23: the UnitOfWork of the use case manages images and model_tag only,
\* and the exit of the with block commits or rolls back these two and no other
\* repository of the UnitOfWork the use case was built from.
C23_ScopeRestricted ==
    /\ pc # "off" => Names(unit_of_work) = Range(REQUIRED_REPOSITORIES)
    /\ \A k \in 1..Len(trace) :
          trace[k].op \in {"commit", "rollback"}
              => trace[k].target \in Range(REQUIRED_REPOSITORIES)

\* The scope was left although the UnitOfWork passed in manages a third
\* repository, which comes first in its dict.
C23_Witness ==
    /\ CallsOf("unit_of_work", "__exit__") # {}
    /\ Len(uow_arg) = 3
    /\ uow_arg[1].name \notin Range(REQUIRED_REPOSITORIES)
    /\ \E k \in 1..Len(trace) : trace[k].op = "commit"

\* C27: with raise_on_error=False no task is run twice, and a call that
\* returned has run func once per task, one task per element of the longer
\* input list, each with the positional and the keyword argument the input
\* lists hold at the task's index (the empty tuple or dict where the list
\* is not given).
C27_OncePerTask ==
    ~exRaise
        => /\ \A i \in 1..Len(exArgs) :
                 Cardinality({k \in 1..Len(exCalls) : exCalls[k].idx = i}) <= 1
           /\ exPc = "returned"
                => /\ Len(exCalls) = Len(exArgs)
                   /\ Len(exArgs) >= Len(args_list.list)
                   /\ Len(exArgs) >= Len(kwargs_list.list)
                   /\ \A i \in 1..Len(exArgs) :
                         \E k \in 1..Len(exCalls) :
                            /\ exCalls[k].idx = i
                            /\ exCalls[k].x = IF args_list.list = <<>> THEN 0
                                              ELSE args_list.list[i]
                            /\ exCalls[k].kw = IF kwargs_list.list = <<>> THEN 0
                                               ELSE kwargs_list.list[i]

\* More tasks than workers, both lists given, different positional arguments.
C27_Witness ==
    /\ ~exRaise
    /\ exPc = "returned"
    /\ Len(exCalls) > exWorkers
    /\ Len(kwargs_list.list) = Len(exCalls)
    /\ \E i, j \in 1..Len(exArgs) : exArgs[i] # exArgs[j]

\* func hangs on an argument of the call.
HangingInput == \E i \in 1..Len(args_list.list) : args_list.list[i] \in exHanging

\* C28: unless func hangs on one of the arguments, the call ends: it rejects
\* its arguments, returns or raises; when func hangs on one of them, the call
\* neither returns nor raises.
C28_Termination ==
    /\ (exPc = "ready" /\ ~HangingInput) ~> (exPc \in {"invalid", "returned", "raised"})
    /\ []((exPc # "invalid" /\ HangingInput) => exPc \notin {"returned", "raised"})

\* A task error was re-raised, every other task has run, and the call waits
\* for an invocation that hangs.
C28_Witness ==
    /\ exPc = "shutdown"
    /\ Pending = {}
    /\ Running # {}
    /\ \A i \in Running : exArgs[i] \in exHanging
    /\ \E i \in 1..Len(exArgs) : exStatus[i] = "done"

\* C24: a tagger task has started only if every extraction task is done and
\* the dedup lookup has returned, and the with block of the UnitOfWork is
\* entered only if every tagger task is done.
C24_NoPipelining ==
    /\ (\E j \in 1..Len(sTag) : sTag[j] # "pending")
         => /\ \A i \in 1..Len(sExtract) : sExtract[i] = "done"
            /\ sLookup = "returned"
    /\ sEntered => \A j \in 1..Len(sTag) : sTag[j] = "done"

\* One worker: the tasks of both stages waited in the queue of their pool.
C24_Witness ==
    /\ sEntered
    /\ sWorkers = 1
    /\ Len(sExtract) >= 2
    /\ Len(sTag) >= 2

\* Positions of the calls the current handle call made on the two persistence
\* repositories, and whether a position lies after the scope was entered and
\* before its exit began.
RepoCalls == {k \in 1..Len(trace) : trace[k].target \in {"images", "model_tag"}}

EnteredBefore(k) == \E e \in CallsOf("unit_of_work", "__enter__") : e < k

ExitBefore(k) == \E x \in CallsOf("unit_of_work", "__exit__") : x < k

\* C25 (as stated): every operation on the images and model_tag repositories
\* happens after the unit-of-work scope was entered.
C25_TouchedOnlyInScope ==
    \A k \in RepoCalls : EnteredBefore(k)

\* C25 (amended): every write on the two repositories happens inside the
\* scope: an insert after the scope was entered and before its exit began, a
\* commit or rollback only as part of the exit. The one operation outside is
\* the read-only find_by_hashes lookup on images, made before the scope is
\* entered; model_tag is never touched outside the scope.
C25_WritesInsideScope ==
    \A k \in RepoCalls :
        /\ trace[k].op = "find_by_hashes"
            => trace[k].target = "images" /\ ~EnteredBefore(k)
        /\ trace[k].op = "insert" => EnteredBefore(k) /\ ~ExitBefore(k)
        /\ trace[k].op \in {"commit", "rollback"} => EnteredBefore(k) /\ ExitBefore(k)
        /\ trace[k].op \in {"find_by_hashes", "insert", "commit", "rollback"}

C25_Witness ==
    /\ pc = "returned"
    /\ CallsOf("images", "find_by_hashes") # {}
    /\ CallsOf("images", "insert") # {}
    /\ CallsOf("model_tag", "insert") # {}
    /\ CallsOf("model_tag", "commit") # {}

ReadsOf(i) == {k \in CallsOf("storage", "read_binary") : trace[k].arg = i}

\* C29: handle reads the binary of each input file exactly once: once the
\* extraction stage has run there is one storage.read_binary call per file,
\* whatever the file holds.
C29_OneReadPerFile ==
    (run >= 1 /\ pc \notin {"idle", "extract"})
        => \A i \in 1..Len(files) : Cardinality(ReadsOf(i)) = 1

\* C30: whenever handle reaches classification, the entry list and the
\* tagger-result list handed to classify have the same length and are aligned
\* by index (result i is what the tagger returned, or None where it raised, for
\* the binary extracted together with entry i), and the entries tagged are
\* exactly the deduplication survivors in input order; classify's length
\* precondition never fails inside handle.
C30_ClassifyInputsAligned ==
    (pc = "classify" \/ CallsOf("classifier", "classify") # {})
        => /\ Len(entries(pairs)) = Len(tagger_results)
           /\ Len(tagger_results_raw) = Len(tagger_results)
           /\ ~classify(entries(pairs), tagger_results).raised
           /\ handleExc # Exc("ValueError")
           /\ entries(pairs) = non_duplicate
           /\ Cardinality(CallsOf("tagger", "tag")) = Len(pairs)
           /\ \A i \in 1..Len(pairs) :
                /\ pairs[i].entry = ImageEntry(pairs[i].entry.file_location, pairs[i].binary)
                /\ files[pairs[i].entry.file_location] = pairs[i].binary
                /\ \E k \in CallsOf("tagger", "tag") :
                      trace[k].arg = i /\ trace[k].raised = IsException(tagger_results_raw[i])
                /\ tagger_results[i] = IF IsException(tagger_results_raw[i])
                                       THEN None ELSE tagger_results_raw[i]
                /\ i > 1 => pairs[i - 1].entry.file_location < pairs[i].entry.file_location

C30_Witness ==
    /\ CallsOf("classifier", "classify") # {}
    /\ Len(pairs) = 2
    /\ IsException(tagger_results_raw[1])
    /\ ~IsException(tagger_results_raw[2])
    /\ tagger_results[2] # EmptyTaggerResult

====
